---- MODULE Spec2Model ----
(***************************************************************************)
(* Model of src/repo_miner.py: the two fetch operations (fetch_commits,    *)
(* fetch_issues) and the CLI dispatch in main that writes their table.     *)
(*                                                                         *)
(* One run of the program is one behaviour: Init fixes the command line,   *)
(* the environment and the content of the remote repository; the actions   *)
(* are the statements of the code, in order, with the remote source free   *)
(* to fail at get_repo and at every pull of the lazy stream.               *)
(*                                                                         *)
(* Nullable values are sequences of length 0 (None) or 1 (Some(x)).        *)
(* A string is the sequence of the code points of its characters         *)
(* (97 = "a", 10 = "\n").  Timestamps are whole hours since an epoch; a     *)
(* timedelta is a number of hours.                                         *)
(***************************************************************************)
EXTENDS Integers, Sequences, FiniteSets

VARIABLES
    command,          \* args.command: "fetch-commits" or "fetch-issues"
    token,            \* os.getenv("GITHUB_TOKEN"): None (unset), Some(<<>>) (empty) or a value
    max_commits,      \* args.max_commits: None or Some(n)
    max_issues,       \* args.max_issues: None or Some(n)
    state,            \* args.state: "all", "open" or "closed"
    repo_commits,     \* the commits of the remote repository, in upstream order
    repo_issues,      \* the issue-shaped items of the remote repository
    pc,               \* position of the process in the code
    client,           \* TRUE once Github(auth=...) has been constructed
    get_repo_called,  \* TRUE once git.get_repo has been called
    stream,           \* the lazy sequence returned by get_commits / get_issues
    pulled,           \* number of items the lazy sequence has yielded so far
    i,                \* enumerate index of fetch_commits
    idx,              \* enumerate index of fetch_issues
    item,             \* the loop variable (commit / issue): None or Some(item)
    records,          \* the list of normalized rows
    loop_exit,        \* how the for loop ended: "running", "exhausted", "break"
    df,               \* the table returned by the fetch: None or Some(rows)
    out_file,         \* content of the file at args.out: None or Some(rows)
    summary           \* the count printed by main: None or Some(n)

vars == <<command, token, max_commits, max_issues, state, repo_commits,
          repo_issues, pc, client, get_repo_called, stream, pulled, i, idx,
          item, records, loop_exit, df, out_file, summary>>

inputs == <<command, token, max_commits, max_issues, state, repo_commits,
            repo_issues>>

----
\* Bounds of the model.
MaxLen == 3        \* longest upstream stream
MaxCap == 3        \* largest --max value
MaxMsgLen == 3     \* longest commit message, in characters
MaxHour == 123     \* latest closed_at, in hours (5 days 3 hours)

HoursPerDay == 24

None == <<>>
Some(x) == <<x>>
Val(o) == o[1]

Min(a, b) == IF a <= b THEN a ELSE b

----
\* Python semantics used by the code.

\* The characters str.splitlines() treats as line boundaries: \n (10),
\* \v (11), \f (12), \r (13), \x1c, \x1d, \x1e (28, 29, 30), \x85 (133),
\* \u2028 and \u2029 (8232, 8233).
LineBreaks == {10, 11, 12, 13, 28, 29, 30, 133, 8232, 8233}

\* The characters of a message: "a", "b" and every line boundary.
Chars == {97, 98} \cup LineBreaks

\* End of the line that starts at position p of s: the first position >= p
\* holding a line boundary, or Len(s) + 1.
RECURSIVE LineEnd(_, _)
LineEnd(s, p) ==
    IF p > Len(s) \/ s[p] \in LineBreaks THEN p ELSE LineEnd(s, p + 1)

\* str.splitlines(): the list of lines of s, line boundaries removed,
\* "\r\n" (13, 10) counting as one boundary, no empty last line after a final
\* boundary.  SplitFrom(s, j) is the list of the lines of s from position j.
RECURSIVE SplitFrom(_, _)
SplitFrom(s, j) ==
    IF j > Len(s) THEN <<>>
    ELSE LET eol == LineEnd(s, j)
             nxt == IF eol > Len(s) THEN eol
                    ELSE IF s[eol] = 13 /\ eol + 1 <= Len(s) /\ s[eol + 1] = 10
                         THEN eol + 2
                         ELSE eol + 1
         IN  <<SubSeq(s, j, eol - 1)>> \o SplitFrom(s, nxt)

splitlines(s) == SplitFrom(s, 1)

\* datetime.isoformat() at the granularity of the model: date and hour.
isoformat(t) == [day |-> t \div HoursPerDay, hour |-> t % HoursPerDay]

\* A day count that rounds to the nearest day instead of truncating.
daysRounded(closed, created) == (closed - created + 12) \div HoursPerDay

\* timedelta.days of the difference closed - created: timedelta keeps
\* 0 <= seconds < 86400, so days is the floor of the quotient.
days(closed, created) == (closed - created) \div HoursPerDay

\* Truthiness of an optional string / optional datetime / optional int.
TruthyStr(o) == o # None /\ Val(o) # <<>>
TruthyObj(o) == o # None
TruthyInt(o) == o # None /\ Val(o) # 0

----
\* The inputs of a run.

Tokens == {None, Some(<<>>), Some(<<116>>)}

Caps(n) == {None} \cup {Some(m) : m \in 0..n}

BoundedSeq(S, n) == UNION {[1..k -> S] : k \in 0..n}

Author == [name |-> "Alice", email |-> "a@example.com", date |-> 0]

\* The j-th upstream commit; its sha names its position upstream.
Commit(j, b) == [sha |-> j, commit |-> [author |-> b.author, message |-> b.message]]

\* The j-th upstream issue-shaped item; its id names its position upstream.
Issue(j, b) ==
    [id |-> j, number |-> 100 + j, title |-> "t", user |-> b.user,
     state |-> b.state, created_at |-> b.created_at, closed_at |-> b.closed_at,
     comments |-> 0, pull_request |-> b.pull_request]

CommitStreams(bodies, n) ==
    {[j \in 1..Len(f) |-> Commit(j, f[j])] : f \in BoundedSeq(bodies, n)}

IssueStreams(bodies, n) ==
    {[j \in 1..Len(f) |-> Issue(j, f[j])] : f \in BoundedSeq(bodies, n)}

\* Streams of up to MaxLen items, each item of one of a few shapes.
StreamCommitBodies ==
    [author : {None, Some(Author)},
     message : {None, Some(<<>>), Some(<<97, 10, 98>>)}]

StreamIssueBodies ==
    {[user |-> Some("alice"), state |-> "open", created_at |-> Some(0),
      closed_at |-> None, pull_request |-> pr] : pr \in {None, Some("pr")}}
    \cup
    {[user |-> Some("alice"), state |-> "closed", created_at |-> Some(0),
      closed_at |-> Some(23), pull_request |-> pr] : pr \in {None, Some("pr")}}

\* One upstream item, of every shape within the bounds.
Messages == {None} \cup {Some(m) : m \in BoundedSeq(Chars, MaxMsgLen)}

CreatedTimes == {None, Some(0), Some(30)}

ClosedTimes == {None} \cup {Some(t) : t \in 0..MaxHour}

ItemCommitBodies == [author : {None, Some(Author)}, message : Messages]

ItemIssueBodies ==
    [user : {None, Some("alice")}, state : {"open", "closed"},
     created_at : CreatedTimes, closed_at : ClosedTimes,
     pull_request : {None, Some("pr")}]

Start(commitBodies, issueBodies, len, cap) ==
    /\ command \in {"fetch-commits", "fetch-issues"}
    /\ token \in Tokens
    /\ IF command = "fetch-commits"
       THEN /\ max_commits \in Caps(cap)
            /\ max_issues = None
            /\ state = "all"
            /\ repo_commits \in CommitStreams(commitBodies, len)
            /\ repo_issues = <<>>
       ELSE /\ max_commits = None
            /\ max_issues \in Caps(cap)
            /\ state \in {"all", "open", "closed"}
            /\ repo_commits = <<>>
            /\ repo_issues \in IssueStreams(issueBodies, len)
    /\ pc = "token"
    /\ client = FALSE
    /\ get_repo_called = FALSE
    /\ stream = <<>>
    /\ pulled = 0
    /\ i = 0
    /\ idx = 0
    /\ item = None
    /\ records = <<>>
    /\ loop_exit = "running"
    /\ df = None
    /\ out_file = None
    /\ summary = None

Init == Start(StreamCommitBodies, StreamIssueBodies, MaxLen, MaxCap)

InitItem == Start(ItemCommitBodies, ItemIssueBodies, 1, 1)

----
\* fetch_commits

\* A check that only notices an unset variable (`token is None`).
TokenMissingNoneOnly(t) == t = None

\* `not token`: the variable is unset or holds the empty string.
TokenMissing(t) == ~TruthyStr(t)

\* 1) Read GitHub token from environment; raise when it is missing.
FetchCommitsToken ==
    /\ command = "fetch-commits"
    /\ pc = "token"
    /\ pc' = IF TokenMissing(token) THEN "MissingCredential" ELSE "client"
    /\ UNCHANGED <<inputs, client, get_repo_called, stream, pulled, i, idx,
                   item, records, loop_exit, df, out_file, summary>>

\* 2) git = Github(auth=Auth.Token(token))
FetchCommitsClient ==
    /\ command = "fetch-commits"
    /\ pc = "client"
    /\ client' = TRUE
    /\ pc' = "get_repo"
    /\ UNCHANGED <<inputs, get_repo_called, stream, pulled, i, idx, item,
                   records, loop_exit, df, out_file, summary>>

\* repo = git.get_repo(repo_name), the remote source answering.
FetchCommitsGetRepo ==
    /\ command = "fetch-commits"
    /\ pc = "get_repo"
    /\ get_repo_called' = TRUE
    /\ pc' = "list"
    /\ UNCHANGED <<inputs, client, stream, pulled, i, idx, item, records,
                   loop_exit, df, out_file, summary>>

\* repo = git.get_repo(repo_name), the remote source rejecting the request:
\* the exception leaves fetch_commits and main.
FetchCommitsGetRepoFail ==
    /\ command = "fetch-commits"
    /\ pc = "get_repo"
    /\ get_repo_called' = TRUE
    /\ pc' = "UpstreamError"
    /\ UNCHANGED <<inputs, client, stream, pulled, i, idx, item, records,
                   loop_exit, df, out_file, summary>>

\* 3) commits = repo.get_commits(); records = []
FetchCommitsList ==
    /\ command = "fetch-commits"
    /\ pc = "list"
    /\ stream' = repo_commits
    /\ records' = <<>>
    /\ pc' = "next"
    /\ UNCHANGED <<inputs, client, get_repo_called, pulled, i, idx, item,
                   loop_exit, df, out_file, summary>>

\* for i, commit in enumerate(commits): the lazy sequence yields its next
\* item, numbered from 0.
FetchCommitsNext ==
    /\ command = "fetch-commits"
    /\ pc = "next"
    /\ pulled < Len(stream)
    /\ item' = Some(stream[pulled + 1])
    /\ i' = pulled
    /\ pulled' = pulled + 1
    /\ pc' = "body"
    /\ UNCHANGED <<inputs, client, get_repo_called, stream, idx, records,
                   loop_exit, df, out_file, summary>>

\* for i, commit in enumerate(commits): the lazy sequence is exhausted.
FetchCommitsStop ==
    /\ command = "fetch-commits"
    /\ pc = "next"
    /\ pulled = Len(stream)
    /\ loop_exit' = "exhausted"
    /\ pc' = "build"
    /\ UNCHANGED <<inputs, client, get_repo_called, stream, pulled, i, idx,
                   item, records, df, out_file, summary>>

\* A loop that swallows the failure of the remote source and goes on to
\* build the table from the rows it has.
FetchCommitsNextFailSwallowed ==
    /\ command = "fetch-commits"
    /\ pc = "next"
    /\ pc' = "build"
    /\ UNCHANGED <<inputs, client, get_repo_called, stream, pulled, i, idx,
                   item, records, loop_exit, df, out_file, summary>>

\* for i, commit in enumerate(commits): the remote source fails while the
\* lazy sequence is asked for its next item.
FetchCommitsNextFail ==
    /\ command = "fetch-commits"
    /\ pc = "next"
    /\ pc' = "UpstreamError"
    /\ UNCHANGED <<inputs, client, get_repo_called, stream, pulled, i, idx,
                   item, records, loop_exit, df, out_file, summary>>

\* A cap test by truthiness (`if max_commits and i >= max_commits`).
CommitCapReachedTruthy(n, m) == TruthyInt(m) /\ n >= Val(m)

\* if max_commits is not None and i >= max_commits
CommitCapReached(n, m) == m # None /\ n >= Val(m)

\* message = ""; if commit_data.message: message = ...splitlines()[0]
CommitMessage(m) == IF TruthyStr(m) THEN Some(splitlines(Val(m))[1]) ELSE Some(<<>>)

\* records.insert(0, row)
PrependRecord(recs, row) == <<row>> \o recs

\* records.append(row)
AppendRecord(recs, row) == Append(recs, row)

\* The record dict of one commit.
CommitRecord(c) ==
    LET commit_data == c.commit
        has_author == TruthyObj(commit_data.author)
    IN  [sha |-> c.sha,
         author |-> IF has_author THEN Some(Val(commit_data.author).name) ELSE None,
         email |-> IF has_author THEN Some(Val(commit_data.author).email) ELSE None,
         date |-> IF has_author THEN Some(isoformat(Val(commit_data.author).date))
                  ELSE None,
         message |-> CommitMessage(commit_data.message)]

\* 4) The body of the loop: leave it when the cap is reached, otherwise
\* normalize the commit into a record.
FetchCommitsBody ==
    /\ command = "fetch-commits"
    /\ pc = "body"
    /\ IF CommitCapReached(i, max_commits)
       THEN /\ loop_exit' = "break"
            /\ pc' = "build"
            /\ UNCHANGED records
       ELSE /\ records' = AppendRecord(records, CommitRecord(Val(item)))
            /\ pc' = "next"
            /\ UNCHANGED loop_exit
    /\ UNCHANGED <<inputs, client, get_repo_called, stream, pulled, i, idx,
                   item, df, out_file, summary>>

\* 5) return pd.DataFrame(records, columns=[...])
FetchCommitsReturn ==
    /\ command = "fetch-commits"
    /\ pc = "build"
    /\ df' = Some(records)
    /\ pc' = "to_csv"
    /\ UNCHANGED <<inputs, client, get_repo_called, stream, pulled, i, idx,
                   item, records, loop_exit, out_file, summary>>

----
\* fetch_issues

\* 1) Read GitHub token; raise when it is missing.
FetchIssuesToken ==
    /\ command = "fetch-issues"
    /\ pc = "token"
    /\ pc' = IF TokenMissing(token) THEN "MissingCredential" ELSE "client"
    /\ UNCHANGED <<inputs, client, get_repo_called, stream, pulled, i, idx,
                   item, records, loop_exit, df, out_file, summary>>

\* 2) git = Github(auth=Auth.Token(token))
FetchIssuesClient ==
    /\ command = "fetch-issues"
    /\ pc = "client"
    /\ client' = TRUE
    /\ pc' = "get_repo"
    /\ UNCHANGED <<inputs, get_repo_called, stream, pulled, i, idx, item,
                   records, loop_exit, df, out_file, summary>>

\* repo = git.get_repo(repo_name), the remote source answering.
FetchIssuesGetRepo ==
    /\ command = "fetch-issues"
    /\ pc = "get_repo"
    /\ get_repo_called' = TRUE
    /\ pc' = "list"
    /\ UNCHANGED <<inputs, client, stream, pulled, i, idx, item, records,
                   loop_exit, df, out_file, summary>>

\* repo = git.get_repo(repo_name), the remote source rejecting the request.
FetchIssuesGetRepoFail ==
    /\ command = "fetch-issues"
    /\ pc = "get_repo"
    /\ get_repo_called' = TRUE
    /\ pc' = "UpstreamError"
    /\ UNCHANGED <<inputs, client, stream, pulled, i, idx, item, records,
                   loop_exit, df, out_file, summary>>

\* The remote source's answer to get_issues(state=...): the items in that
\* state, in upstream order.
get_issues(issues, st) ==
    IF st = "all" THEN issues
    ELSE SelectSeq(issues, LAMBDA iss : iss.state = st)

\* 3) issues = repo.get_issues(state=state); records = []
FetchIssuesList ==
    /\ command = "fetch-issues"
    /\ pc = "list"
    /\ stream' = get_issues(repo_issues, state)
    /\ records' = <<>>
    /\ pc' = "next"
    /\ UNCHANGED <<inputs, client, get_repo_called, pulled, i, idx, item,
                   loop_exit, df, out_file, summary>>

\* for idx, issue in enumerate(issues): the lazy sequence yields its next
\* item, numbered from 0.
FetchIssuesNext ==
    /\ command = "fetch-issues"
    /\ pc = "next"
    /\ pulled < Len(stream)
    /\ item' = Some(stream[pulled + 1])
    /\ idx' = pulled
    /\ pulled' = pulled + 1
    /\ pc' = "body"
    /\ UNCHANGED <<inputs, client, get_repo_called, stream, i, records,
                   loop_exit, df, out_file, summary>>

\* for idx, issue in enumerate(issues): the lazy sequence is exhausted.
FetchIssuesStop ==
    /\ command = "fetch-issues"
    /\ pc = "next"
    /\ pulled = Len(stream)
    /\ loop_exit' = "exhausted"
    /\ pc' = "build"
    /\ UNCHANGED <<inputs, client, get_repo_called, stream, pulled, i, idx,
                   item, records, df, out_file, summary>>

\* for idx, issue in enumerate(issues): the remote source fails while the
\* lazy sequence is asked for its next item.
FetchIssuesNextFail ==
    /\ command = "fetch-issues"
    /\ pc = "next"
    /\ pc' = "UpstreamError"
    /\ UNCHANGED <<inputs, client, get_repo_called, stream, pulled, i, idx,
                   item, records, loop_exit, df, out_file, summary>>

\* if max_issues and idx >= max_issues
IssueCapReached(n, m) == TruthyInt(m) /\ n >= Val(m)

\* An inverted test (`if issue.pull_request is None`).
IsPullRequestInverted(iss) == iss.pull_request = None

\* if issue.pull_request is not None
IsPullRequest(iss) == iss.pull_request # None

\* open_duration = None; if issue.closed_at and issue.created_at:
\* open_duration = (issue.closed_at - issue.created_at).days
OpenDuration(iss) ==
    IF TruthyObj(iss.closed_at) /\ TruthyObj(iss.created_at)
    THEN Some(days(Val(iss.closed_at), Val(iss.created_at)))
    ELSE None

\* The record dict of one issue.
IssueRecord(iss) ==
    [id |-> iss.id,
     number |-> iss.number,
     title |-> iss.title,
     user |-> IF TruthyObj(iss.user) THEN iss.user ELSE None,
     state |-> iss.state,
     created_at |-> IF TruthyObj(iss.created_at)
                    THEN Some(isoformat(Val(iss.created_at))) ELSE None,
     closed_at |-> IF TruthyObj(iss.closed_at)
                   THEN Some(isoformat(Val(iss.closed_at))) ELSE None,
     comments |-> iss.comments,
     open_duration_days |-> OpenDuration(iss)]

\* 4) The body of the loop: leave it when the cap is reached, skip a pull
\* request, otherwise normalize the issue into a record.
FetchIssuesBody ==
    /\ command = "fetch-issues"
    /\ pc = "body"
    /\ IF IssueCapReached(idx, max_issues)
       THEN /\ loop_exit' = "break"
            /\ pc' = "build"
            /\ UNCHANGED records
       ELSE IF IsPullRequest(Val(item))
       THEN /\ pc' = "next"
            /\ UNCHANGED <<records, loop_exit>>
       ELSE /\ records' = AppendRecord(records, IssueRecord(Val(item)))
            /\ pc' = "next"
            /\ UNCHANGED loop_exit
    /\ UNCHANGED <<inputs, client, get_repo_called, stream, pulled, i, idx,
                   item, df, out_file, summary>>

\* 5) return pd.DataFrame(records, columns=[...])
FetchIssuesReturn ==
    /\ command = "fetch-issues"
    /\ pc = "build"
    /\ df' = Some(records)
    /\ pc' = "to_csv"
    /\ UNCHANGED <<inputs, client, get_repo_called, stream, pulled, i, idx,
                   item, records, loop_exit, out_file, summary>>

----
\* main

\* df.to_csv(args.out, index=False) of fetch-commits
MainCommitsToCsv ==
    /\ command = "fetch-commits"
    /\ pc = "to_csv"
    /\ out_file' = df
    /\ pc' = "print"
    /\ UNCHANGED <<inputs, client, get_repo_called, stream, pulled, i, idx,
                   item, records, loop_exit, df, summary>>

\* print(f"Saved {len(df)} commits to {args.out}")
MainCommitsPrint ==
    /\ command = "fetch-commits"
    /\ pc = "print"
    /\ summary' = Some(Len(Val(df)))
    /\ pc' = "done"
    /\ UNCHANGED <<inputs, client, get_repo_called, stream, pulled, i, idx,
                   item, records, loop_exit, df, out_file>>

\* df.to_csv(args.out, index=False) of fetch-issues
MainIssuesToCsv ==
    /\ command = "fetch-issues"
    /\ pc = "to_csv"
    /\ out_file' = df
    /\ pc' = "print"
    /\ UNCHANGED <<inputs, client, get_repo_called, stream, pulled, i, idx,
                   item, records, loop_exit, df, summary>>

\* print(f"Saved {len(df)} issues to {args.out}")
MainIssuesPrint ==
    /\ command = "fetch-issues"
    /\ pc = "print"
    /\ summary' = Some(Len(Val(df)))
    /\ pc' = "done"
    /\ UNCHANGED <<inputs, client, get_repo_called, stream, pulled, i, idx,
                   item, records, loop_exit, df, out_file>>

Next ==
    \/ FetchCommitsToken
    \/ FetchCommitsClient
    \/ FetchCommitsGetRepo
    \/ FetchCommitsGetRepoFail
    \/ FetchCommitsList
    \/ FetchCommitsNext
    \/ FetchCommitsStop
    \/ FetchCommitsNextFail
    \/ FetchCommitsBody
    \/ FetchCommitsReturn
    \/ FetchIssuesToken
    \/ FetchIssuesClient
    \/ FetchIssuesGetRepo
    \/ FetchIssuesGetRepoFail
    \/ FetchIssuesList
    \/ FetchIssuesNext
    \/ FetchIssuesStop
    \/ FetchIssuesNextFail
    \/ FetchIssuesBody
    \/ FetchIssuesReturn
    \/ MainCommitsToCsv
    \/ MainCommitsPrint
    \/ MainIssuesToCsv
    \/ MainIssuesPrint

\* Runs over streams of up to MaxLen items.
Spec == Init /\ [][Next]_vars

\* Runs over at most one upstream item, of every shape within the bounds.
SpecItem == InitItem /\ [][Next]_vars

----
\* Properties.

\* Every table of rows the run holds: the list being built, the table
\* returned and the table written.
Tables ==
    {records} \cup (IF df = None THEN {} ELSE {Val(df)})
              \cup (IF out_file = None THEN {} ELSE {Val(out_file)})

\* The upstream item a row was derived from.
SourceCommit(row) ==
    repo_commits[CHOOSE j \in 1..Len(repo_commits) : repo_commits[j].sha = row.sha]

SourceIssue(row) ==
    repo_issues[CHOOSE j \in 1..Len(repo_issues) : repo_issues[j].id = row.id]

\* Position in the listed stream of the item with this id (0 when absent).
StreamPos(id) ==
    IF \E j \in 1..Len(stream) : stream[j].id = id
    THEN CHOOSE j \in 1..Len(stream) : stream[j].id = id
    ELSE 0

\* Number of items of the listed issue stream that are not pull requests.
Qualifying == Cardinality({j \in 1..Len(stream) : stream[j].pull_request = None})

\* C1: a table returned by fetch_commits over k upstream commits has
\* min(k, m) rows when the cap m is given (none when m = 0) and k rows when
\* no cap is given.
C1_CommitRowCount ==
    (command = "fetch-commits" /\ df # None) =>
        Len(Val(df)) = IF max_commits = None
                       THEN Len(repo_commits)
                       ELSE Min(Len(repo_commits), Val(max_commits))

C1_Witness ==
    /\ command = "fetch-commits"
    /\ pc = "done"
    /\ max_commits # None
    /\ Val(max_commits) > 0
    /\ Val(max_commits) < Len(repo_commits)
    /\ Len(Val(df)) = Val(max_commits)

\* C2: a table returned by fetch_issues under a given cap m has min(q, m)
\* rows, q being the number of items of the stream that are not pull
\* requests: pull requests do not count against the cap.
C2_CapCountsQualifying ==
    (command = "fetch-issues" /\ df # None /\ max_issues # None) =>
        Len(Val(df)) = Min(Qualifying, Val(max_issues))

\* C3: a table returned by fetch_issues under a given cap has at most that
\* many rows.
C3_IssueRowsCapped ==
    (command = "fetch-issues" /\ df # None /\ max_issues # None) =>
        Len(Val(df)) <= Val(max_issues)

\* C4: no row of fetch_issues comes from an upstream item that carries
\* pull-request linkage, whatever the state filter and the cap.
C4_NoPullRequestRows ==
    command = "fetch-issues" =>
        \A t \in Tables : \A r \in 1..Len(t) :
            /\ \E j \in 1..Len(repo_issues) : repo_issues[j].id = t[r].id
            /\ SourceIssue(t[r]).pull_request = None

C4_Witness ==
    /\ command = "fetch-issues"
    /\ pc = "done"
    /\ Len(Val(df)) > 0
    /\ \E j \in 1..Len(stream) : j <= pulled /\ stream[j].pull_request # None

\* C5: without a token (unset or empty) a fetch goes from the token check to
\* the missing-credential error and nowhere else, and a run that ends in
\* that error has constructed no client, called no get_repo and pulled no
\* upstream item.
C5_MissingCredentialFirst ==
    /\ (token = None \/ token = Some(<<>>)) =>
           pc \in {"token", "MissingCredential"}
    /\ pc = "MissingCredential" =>
           /\ ~client
           /\ ~get_repo_called
           /\ pulled = 0
           /\ stream = <<>>
           /\ df = None

C5_Witness ==
    /\ pc = "MissingCredential"
    /\ token = Some(<<>>)
    /\ command = "fetch-issues"

\* C6: open_duration_days of an issue row is null exactly when created_at or
\* closed_at is absent upstream; otherwise it is the whole number d of days
\* with d days <= closed_at - created_at < d + 1 days.
C6_OpenDurationFloor ==
    command = "fetch-issues" =>
        \A t \in Tables : \A r \in 1..Len(t) :
            LET row == t[r]
                src == SourceIssue(row)
            IN  /\ row.open_duration_days = None
                       <=> (src.created_at = None \/ src.closed_at = None)
                /\ row.open_duration_days # None =>
                       LET d == Val(row.open_duration_days)
                           open_time == Val(src.closed_at) - Val(src.created_at)
                       IN  /\ d * HoursPerDay <= open_time
                           /\ open_time < (d + 1) * HoursPerDay

C6_Witness ==
    /\ command = "fetch-issues"
    /\ pc = "done"
    /\ Len(Val(df)) = 1
    /\ repo_issues[1].created_at = Some(0)
    /\ repo_issues[1].closed_at = Some(5 * HoursPerDay + 3)
    /\ Val(df)[1].open_duration_days = Some(5)

\* The line breaks of a commit message as the claim means them: newline
\* (10) and carriage return (13), alone or as the pair "\r\n".
Newlines == {10, 13}

\* l is the first line of s: the longest prefix of s without a line break.
IsFirstLine(l, s) ==
    \E n \in 0..Len(s) :
        /\ l = SubSeq(s, 1, n)
        /\ \A p \in 1..n : s[p] \notin Newlines
        /\ n = Len(s) \/ s[n + 1] \in Newlines

\* C7: the message of a commit row is never null, holds no line break and is
\* the first line of the upstream message; it is the empty string when the
\* upstream message is empty or absent.
C7_MessageFirstLine ==
    command = "fetch-commits" =>
        \A t \in Tables : \A r \in 1..Len(t) :
            LET row == t[r]
                full == SourceCommit(row).commit.message
            IN  /\ row.message # None
                /\ \A p \in 1..Len(Val(row.message)) :
                       Val(row.message)[p] \notin Newlines
                /\ IF full = None \/ full = Some(<<>>)
                   THEN Val(row.message) = <<>>
                   ELSE IsFirstLine(Val(row.message), Val(full))

\* C8: after an upstream failure there is no table, no output file and no
\* count summary; a table exists only once the loop ran to the end of the
\* stream or to the cap, and only a returned table is written and counted.
C8_NoPartialResult ==
    /\ pc = "UpstreamError" =>
           /\ df = None
           /\ out_file = None
           /\ summary = None
    /\ df # None =>
           \/ loop_exit = "exhausted" /\ pulled = Len(stream)
           \/ /\ loop_exit = "break"
              /\ IF command = "fetch-commits"
                 THEN max_commits # None /\ i >= Val(max_commits)
                 ELSE max_issues # None /\ idx >= Val(max_issues)
    /\ out_file # None => (df # None /\ out_file = df)
    /\ summary # None => (out_file # None /\ summary = Some(Len(Val(out_file))))

C8_Witness ==
    /\ pc = "UpstreamError"
    /\ Len(records) > 0
    /\ pulled < Len(stream)

\* C9: rows are in upstream order: row j of fetch_commits comes from the
\* j-th upstream commit, and the rows of fetch_issues come from items of the
\* stream at strictly increasing positions.
C9_SourceOrder ==
    \A t \in Tables :
        IF command = "fetch-commits"
        THEN \A j \in 1..Len(t) :
                 /\ j <= Len(repo_commits)
                 /\ t[j].sha = repo_commits[j].sha
        ELSE /\ \A a \in 1..Len(t) : StreamPos(t[a].id) > 0
             /\ \A a, b \in 1..Len(t) :
                    a < b => StreamPos(t[a].id) < StreamPos(t[b].id)

C9_Witness ==
    /\ command = "fetch-issues"
    /\ pc = "done"
    /\ Len(Val(df)) = 2
    /\ Len(stream) = 3

\* C10: under a given cap m, fetch_commits never has the lazy commit stream
\* yield more than m items: nothing is pulled once m rows are recorded.
C10_PullsWithinCap ==
    (command = "fetch-commits" /\ max_commits # None) =>
        pulled <= Val(max_commits)

====
